---- MODULE Spec2Model ----
(***************************************************************************)
(* Model of the homework-status notifier bot.                              *)
(*                                                                         *)
(* The repository holds two entry points with the same polling core:       *)
(*   src/homework.py          - the single-threaded bot ("homework")       *)
(*   src/backend/homework.py  - the bot with the Telegram command thread   *)
(*                              ("backend")                                *)
(* The variable `program` says which of the two mains is running.          *)
(* src/homework.py runs nothing beside its loop: one action, PollHomework, *)
(* is one whole iteration of its `while True`, including the sleep of its  *)
(* finally clause.  src/backend/homework.py starts the command thread      *)
(* before its loop, and the thread handles messages while main waits in    *)
(* requests.get, bot.send_message and time.sleep: its iteration is taken   *)
(* statement by statement (LoopFetch ... LoopSleepFinally), and so is a    *)
(* status check of the thread (StatusFetch, StatusAnswer, StatusDeliver).  *)
(* The specifications SpecValidate and SpecSelect apply a function of the  *)
(* source to an argument, outside any main.                                *)
(*                                                                         *)
(* Python values: a dict is a TLA+ record whose DOMAIN is its key set; a   *)
(* JSON value whose type the code inspects is tagged with its type.  None  *)
(* is the string "None" for string-valued variables and NoMessageId for    *)
(* last_message_id.  A call that may raise returns Ok(v) or Raise(e, m).   *)
(* The message literals of the source are Russian; the module language     *)
(* admits ASCII strings only, so each literal is rendered in English with  *)
(* the same interpolated fields in the same order.                         *)
(***************************************************************************)
EXTENDS Integers, Sequences, FiniteSets, TLC

(* ------------------------------ bounds --------------------------------- *)
\* The wall clock is followed for MaxClock retry periods.
MaxClock == 4
\* The server's current_date is one of 0..MaxDate retry periods.
MaxDate == 1
\* A response carries at most MaxHomeworks homework entries.
MaxHomeworks == 2
\* Telegram numbers a sent message 1..MaxMessageId.
MaxMessageId == 1
\* With messages arriving, the loop is followed for MaxBotClock periods.
MaxBotClock == 2
\* The requests.get of a status check takes 0..MaxFetchSeconds seconds.
MaxFetchSeconds == 1
\* Record selection is tried on lists of 1..MaxSelect entries whose
\* date_updated is absent or one of MaxSelectDate values.
MaxSelect == 3
MaxSelectDate == 2

(* ------------------------- program constants --------------------------- *)
RETRY_PERIOD == 600
HTTP_OK == 200
\* last_message_id = None; `if last_message_id:` is false for None (and 0)
NoMessageId == 0
\* send_homework_status asks for the last hour
STATUS_WINDOW == 3600

None == "None"

HOMEWORK_VERDICTS ==
    [approved  |-> "Work checked: the reviewer liked everything. Hooray!",
     reviewing |-> "Work was taken for review by the reviewer.",
     rejected  |-> "Work checked: the reviewer has remarks."]

TokenNames == {"PRACTICUM_TOKEN", "TELEGRAM_TOKEN", "TELEGRAM_CHAT_ID"}

(* ----------------------- results and exceptions ------------------------ *)
Ok(v) == [ok |-> TRUE, val |-> v]
Raise(e, m) == [ok |-> FALSE, exc |-> e, msg |-> m]

\* An except clause that catches every exception.
IsException(e) == TRUE
\* class APIResponseError(HomeworkBotError); the builtins are not subclasses
IsHomeworkBotError(e) == e \in {"HomeworkBotError", "APIResponseError"}

\* str(error): a KeyError prints the repr of its argument, the others the
\* argument itself
ExcStr(r) == IF r.exc = "KeyError" THEN "'" \o r.msg \o "'" ELSE r.msg

\* f'{type(x)}'
TypeRepr(v) == "<class '" \o v.type \o "'>"

(* --------------------------- input domains ----------------------------- *)
Names == {"hw1", "hw2"}
Dates == {d * RETRY_PERIOD : d \in 0..MaxDate}

\* Entries the API may return first in the list: complete entries, an entry
\* with a status the bot does not know and no date_updated, an entry without
\* homework_name, an entry without status.
HeadEntries ==
    {[homework_name |-> n, status |-> s, date_updated |-> 1] :
        n \in Names, s \in {"reviewing", "approved"}}
    \cup {[homework_name |-> "hw1", status |-> "archived"],
          [status |-> "reviewing"],
          [homework_name |-> "hw1", date_updated |-> 1]}

\* Entries that may follow the first one: a dated entry and an undated one.
TailEntries ==
    {[homework_name |-> "hw2", status |-> "approved", date_updated |-> 1],
     [homework_name |-> "hw2", status |-> "reviewing"]}

RECURSIVE SeqsUpTo(_, _)
SeqsUpTo(S, n) ==
    IF n = 0 THEN {<<>>}
    ELSE LET shorter == SeqsUpTo(S, n - 1)
         IN  shorter \cup {Append(q, x) : q \in {p \in shorter : Len(p) = n - 1}, x \in S}

\* The lists of at most MaxHomeworks entries.
HomeworkLists ==
    {<<>>} \cup {<<h>> \o t : h \in HeadEntries,
                             t \in SeqsUpTo(TailEntries, MaxHomeworks - 1)}

PyList(items) == [type |-> "list", items |-> items]
PyStr(s) == [type |-> "str", s |-> s]
PyDict(d) == [type |-> "dict", d |-> d]

\* The value of the 'homeworks' key: a list of entries or a string.
HomeworksValues == {PyList(l) : l \in HomeworkLists} \cup {PyStr("not-a-list")}

\* Bodies response.json() may return: a non-dict, dicts without 'homeworks',
\* dicts with 'homeworks', each with or without 'current_date'.
JsonBodies ==
    {PyList(<<>>)}
    \cup {PyDict([current_date |-> c]) : c \in Dates}
    \cup {PyDict(<<>>)}
    \cup {PyDict([homeworks |-> h]) : h \in HomeworksValues}
    \cup {PyDict([homeworks |-> h, current_date |-> c]) : h \in HomeworksValues, c \in Dates}

\* What requests.get does: raises RequestException, or returns a response.
NetOutcomes ==
    {[kind |-> "RequestException", error |-> "timeout"]}
    \cup {[kind |-> "response", status_code |-> 500, text |-> "err"]}
    \cup {[kind |-> "response", status_code |-> HTTP_OK, json |-> j] : j \in JsonBodies}

\* What bot.send_message / bot.edit_message_text does.
TransportOutcomes == {"ok", "ApiException", "RequestException"}
MessageIds == 1..MaxMessageId

\* The Telegram outcomes and message ids an iteration is tried with.  An
\* iteration that makes no Telegram call is the same step under every
\* outcome, and one that stores no new message id the same step under every
\* id, so a single one is enumerated for it.
OutcomesOf(calls) == IF calls = <<>> THEN {"ok"} ELSE TransportOutcomes
IdsOf(c) ==
    IF c.result = "caught" /\ c.calls # <<>> /\ c.calls[1].op = "send_message"
    THEN MessageIds ELSE {CHOOSE m \in MessageIds : TRUE}

(* ------------------------ src/homework.py helpers ----------------------- *)
\* check_tokens(): True iff none of the three settings is missing or empty;
\* `env` is the set of settings that are present and non-empty.
missing_tokens(env) == TokenNames \ env
\* A check_tokens that is satisfied as soon as one setting is present.
check_tokens_any(env) == env # {}
check_tokens(env) == missing_tokens(env) = {}

\* params = {'from_date': timestamp}, as f'{params}' prints it
ParamsStr(timestamp) == "{'from_date': " \o ToString(timestamp) \o "}"

\* get_api_answer(timestamp) of src/homework.py on the outcome `net` of
\* requests.get
get_api_answer(timestamp, net) ==
    IF net.kind = "RequestException"
    THEN Raise("APIResponseError",
               "Error requesting the API: " \o net.error
               \o ", request params: " \o ParamsStr(timestamp))
    ELSE IF net.status_code # HTTP_OK
    THEN Raise("APIResponseError",
               "API error: " \o ToString(net.status_code) \o ", " \o net.text
               \o ", Request params: " \o ParamsStr(timestamp))
    ELSE Ok(net.json)

\* A check_response that takes a 'homeworks' that is not a list for no
\* homeworks.
check_response_lenient(response) ==
    IF response.type # "dict"
    THEN Raise("TypeError",
               "API response must be a dict, but got " \o TypeRepr(response))
    ELSE IF "homeworks" \notin DOMAIN response.d
    THEN Raise("KeyError", "Key \"homeworks\" is missing in the API response")
    ELSE IF response.d.homeworks.type # "list"
    THEN Ok(<<>>)
    ELSE Ok(response.d.homeworks.items)

\* check_response(response) of src/homework.py
check_response(response) ==
    IF response.type # "dict"
    THEN Raise("TypeError",
               "API response must be a dict, but got " \o TypeRepr(response))
    ELSE IF "homeworks" \notin DOMAIN response.d
    THEN Raise("KeyError", "Key \"homeworks\" is missing in the API response")
    ELSE IF response.d.homeworks.type # "list"
    THEN Raise("TypeError",
               "Value of key \"homeworks\" must be a list, but got "
               \o TypeRepr(response.d.homeworks))
    ELSE Ok(response.d.homeworks.items)

\* parse_status(homework) of src/homework.py
parse_status(homework) ==
    IF "homework_name" \notin DOMAIN homework
    THEN Raise("KeyError", "Key \"homework_name\" is missing")
    ELSE IF "status" \notin DOMAIN homework
    THEN Raise("KeyError", "Key \"status\" is missing")
    ELSE IF homework.status \notin DOMAIN HOMEWORK_VERDICTS
    THEN Raise("ValueError", "Unknown homework status: " \o homework.status)
    ELSE Ok("Homework review status changed \"" \o homework.homework_name
            \o "\". " \o HOMEWORK_VERDICTS[homework.status])

\* response.get('current_date', int(time.time()))
get_current_date(response, now) ==
    IF "current_date" \in DOMAIN response.d THEN response.d.current_date ELSE now

\* the text sent to the chat for an error, src/homework.py lines 158 and 164
FailureText(error) == "Program failure: " \o error

(* -------------------- src/backend/homework.py helpers ------------------- *)
\* get_api_answer(timestamp) of src/backend/homework.py
backend_get_api_answer(timestamp, net) ==
    IF net.kind = "RequestException"
    THEN Raise("APIResponseError", "Request error: " \o net.error)
    ELSE IF net.status_code # HTTP_OK
    THEN Raise("APIResponseError",
               "API error: " \o ToString(net.status_code) \o ", " \o net.text)
    ELSE Ok(net.json)

\* check_response(response) of src/backend/homework.py
backend_check_response(response) ==
    IF response.type # "dict"
    THEN Raise("TypeError",
               "API response must be dict, but got " \o TypeRepr(response))
    ELSE IF "homeworks" \notin DOMAIN response.d
    THEN Raise("KeyError", "Key \"homeworks\" is missing in the API response")
    ELSE IF response.d.homeworks.type # "list"
    THEN Raise("TypeError",
               "\"homeworks\" must be a list, but got "
               \o TypeRepr(response.d.homeworks))
    ELSE Ok(response.d.homeworks.items)

\* parse_status(homework) of src/backend/homework.py; no code calls it
backend_parse_status(homework) ==
    IF "homework_name" \notin DOMAIN homework
    THEN Raise("KeyError", "Key \"homework_name\" is missing")
    ELSE IF "status" \notin DOMAIN homework
    THEN Raise("KeyError", "Key \"status\" is missing")
    ELSE IF homework.status \notin DOMAIN HOMEWORK_VERDICTS
    THEN Raise("ValueError", "Unknown status: " \o homework.status)
    ELSE Ok("Work status \"" \o homework.homework_name \o "\": "
            \o HOMEWORK_VERDICTS[homework.status])

\* key=lambda x: x.get('date_updated', 0)
sort_key(x) == IF "date_updated" \in DOMAIN x THEN x.date_updated ELSE 0

\* sorted(homeworks, key=sort_key, reverse=True): a stable sort by
\* descending key, entries of equal key staying in the order of the list.
\* Computed by insertion from the right: x, which precedes every entry of s
\* in the list, goes after the entries of greater key and before the others.
RECURSIVE insert_desc(_, _)
insert_desc(x, s) ==
    IF s = <<>> THEN <<x>>
    ELSE IF sort_key(Head(s)) > sort_key(x)
    THEN <<Head(s)>> \o insert_desc(x, Tail(s))
    ELSE <<x>> \o s

RECURSIVE sorted_desc(_)
sorted_desc(homeworks) ==
    IF homeworks = <<>> THEN <<>>
    ELSE insert_desc(Head(homeworks), sorted_desc(Tail(homeworks)))

\* homeworks_sorted[0]
latest_homework(homeworks) == sorted_desc(homeworks)[1]

\* The message of the polling loop of src/backend/homework.py, lines 220-224:
\* homeworks_sorted[0]['homework_name'] is read before
\* HOMEWORK_VERDICTS[current_status].
backend_status_message(homework, current_status) ==
    IF "homework_name" \notin DOMAIN homework
    THEN Raise("KeyError", "homework_name")
    ELSE IF current_status \notin DOMAIN HOMEWORK_VERDICTS
    THEN Raise("KeyError", current_status)
    ELSE Ok("Status changed!\nWork: " \o homework.homework_name
            \o "\nNew status: " \o HOMEWORK_VERDICTS[current_status])

(* ------------------------------- state --------------------------------- *)
VARIABLES
    program,          \* "homework" (src/homework.py) or "backend"
    env,              \* the settings present and non-empty in the environment
    pc,               \* "start", "loop", "exited" (exit()), "crashed"
    now,              \* int(time.time())
    timestamp,        \* main's cursor, the from_date of the next fetch
    last_status,      \* backend main: status of the last delivered notification
    last_error,       \* homework main: text of the last reported error
    last_message_id,  \* homework main: id of the error message in the chat
    cycle,            \* what the last iteration of the loop did
    chat_status,      \* text of the latest status notification in the chat
    chat_verdict,     \* per homework, the status last delivered by the loop
    reply,            \* backend: the message the thread is handling, or
                      \* the last one handled since the loop's latest fetch
    arg,              \* the argument of a function called on its own
    ret               \* what that call returned or raised

vars == <<program, env, pc, now, timestamp, last_status, last_error,
          last_message_id, cycle, chat_status, chat_verdict, reply, arg, ret>>

Horizon == MaxClock * RETRY_PERIOD

\* One Telegram call of an iteration: op is the bot method, outcome what it did.
Call(op, text, outcome) == [op |-> op, text |-> text, outcome |-> outcome]

\* The record of an iteration.  result: "ok" (no exception), "caught" (an
\* exception handled by the except clause) or "escaped" (an exception left the
\* loop); exc, error: the exception and str(error); validated:
\* get_api_answer and check_response
\* returned; server_date: the response's current_date, if any; selected: the
\* entry acted on, if any; calls: the Telegram calls made; slept: the seconds
\* slept.
NoCycle ==
    [result |-> "none", exc |-> None, error |-> None, validated |-> FALSE,
     server_date |-> {}, selected |-> {}, calls |-> <<>>, slept |-> 0]

\* ret before any call, and the record of a call of the function fn.
NoReturn == [fn |-> None, result |-> Ok(None)]
Returned(fn, result) == [fn |-> fn, result |-> result]

\* The record of a handled Telegram message.  handler: the handler telebot
\* dispatched to; from_date: the from_date of the handler's fetch, if any;
\* kind: "fetching" (requests.get not yet answered), "status" (the status
\* text), "empty" (no data yet), "error" (an error text) or "keyboard";
\* selected: the entry reported, if any; calls: the Telegram calls made,
\* with the outcome "pending" while bot.send_message has not returned.
NoReply ==
    [handler |-> None, from_date |-> {}, kind |-> "none", selected |-> {},
     calls |-> <<>>]

ServerDate(api) ==
    IF api.ok /\ api.val.type = "dict" /\ "current_date" \in DOMAIN api.val.d
    THEN {api.val.d.current_date} ELSE {}

Init ==
    /\ program \in {"homework", "backend"}
    /\ env \in SUBSET TokenNames
    /\ pc = "start"
    /\ now = RETRY_PERIOD
    /\ timestamp = 0
    /\ last_status = None
    /\ last_error = None
    /\ last_message_id = NoMessageId
    /\ cycle = NoCycle
    /\ chat_status = None
    /\ chat_verdict = [n \in Names |-> None]
    /\ reply = NoReply
    /\ arg = None
    /\ ret = NoReturn

(* ------------------------ main() before the loop ----------------------- *)
\* if not check_tokens(): exit(); timestamp = int(time.time()); the other
\* loop variables are set to None.
Start ==
    /\ pc = "start"
    /\ IF check_tokens(env)
       THEN pc' = "loop" /\ timestamp' = now
       ELSE pc' = "exited" /\ timestamp' = timestamp
    /\ last_status' = None
    /\ last_error' = None
    /\ last_message_id' = NoMessageId
    /\ UNCHANGED <<program, env, now, cycle, chat_status, chat_verdict, reply,
                   arg, ret>>

(* --------------------- src/homework.py: the loop ------------------------ *)
\* send_message(bot, message): bot.send_message with ApiException and
\* RequestException caught and logged; nothing is returned or raised.
send_message(message, tg) == <<Call("send_message", message, tg)>>

\* The `except HomeworkBotError as error` clause, lines 152-167, for the
\* caught exception r, with the Telegram outcome tg and message id mid.
\* bot.edit_message_text and bot.send_message are called bare: what they
\* raise leaves the clause, and last_error is then not assigned.
except_HomeworkBotError(r, le, lmid, tg, mid) ==
    LET error == ExcStr(r)
        text == FailureText(error)
    IN  IF le = error
        THEN [last_error |-> le, last_message_id |-> lmid, calls |-> <<>>,
              raised |-> None]
        ELSE IF lmid # NoMessageId
        THEN [last_error |-> IF tg = "ok" THEN error ELSE le,
              last_message_id |-> lmid,
              calls |-> <<Call("edit_message_text", text, tg)>>,
              raised |-> IF tg = "ok" THEN None ELSE tg]
        ELSE [last_error |-> IF tg = "ok" THEN error ELSE le,
              last_message_id |-> IF tg = "ok" THEN mid ELSE lmid,
              calls |-> <<Call("send_message", text, tg)>>,
              raised |-> IF tg = "ok" THEN None ELSE tg]

\* One iteration of `while True` of main, lines 138-170, from the cursor ts,
\* last_error le and last_message_id lmid, at wall-clock time t, on the fetch
\* outcome net, the Telegram outcome tg and the Telegram message id mid.
main_iteration(ts, le, lmid, t, net, tg, mid) ==
    LET api == get_api_answer(ts, net)
        chk == check_response(api.val)
        homeworks == chk.val
        parsed == parse_status(homeworks[1])
        \* the first exception raised in the try block, if any
        raised == IF ~api.ok THEN api
                  ELSE IF ~chk.ok THEN chk
                  ELSE IF homeworks # <<>> /\ ~parsed.ok THEN parsed
                  ELSE Ok(None)
        \* line 144 runs once check_response has returned
        new_ts == IF api.ok /\ chk.ok THEN get_current_date(api.val, t) ELSE ts
        base == [result |-> "ok", exc |-> None, error |-> None,
                 validated |-> api.ok /\ chk.ok,
                 server_date |-> ServerDate(api),
                 selected |-> IF api.ok /\ chk.ok /\ homeworks # <<>>
                              THEN {homeworks[1]} ELSE {},
                 calls |-> <<>>, slept |-> RETRY_PERIOD]
        handled == except_HomeworkBotError(raised, le, lmid, tg, mid)
    IN  IF raised.ok
        THEN [timestamp |-> new_ts, last_error |-> le, last_message_id |-> lmid,
              pc |-> "loop",
              cycle |-> [base EXCEPT !.calls =
                            IF homeworks # <<>> THEN send_message(parsed.val, tg)
                            ELSE <<>>]]
        ELSE IF IsHomeworkBotError(raised.exc)
        THEN [timestamp |-> new_ts,
              last_error |-> handled.last_error,
              last_message_id |-> handled.last_message_id,
              pc |-> IF handled.raised = None THEN "loop" ELSE "crashed",
              cycle |-> [base EXCEPT
                            !.result = IF handled.raised = None
                                       THEN "caught" ELSE "escaped",
                            !.exc = IF handled.raised = None
                                    THEN raised.exc ELSE handled.raised,
                            !.error = ExcStr(raised),
                            !.calls = handled.calls]]
        ELSE [timestamp |-> new_ts, last_error |-> le, last_message_id |-> lmid,
              pc |-> "crashed",
              cycle |-> [base EXCEPT !.result = "escaped", !.exc = raised.exc,
                                     !.error = ExcStr(raised)]]

\* The status notifications an iteration delivered to the chat.
DeliveredStatus(c) ==
    {i \in 1..Len(c.calls) :
        /\ c.calls[i].outcome = "ok"
        /\ c.result = "ok"}

\* The chat after the iteration c: the latest delivered status notification
\* and the verdict last delivered for each homework.
ChatStatusAfter(c) ==
    IF DeliveredStatus(c) # {} THEN c.calls[Len(c.calls)].text ELSE chat_status

ChatVerdictAfter(c) ==
    IF DeliveredStatus(c) # {}
    THEN LET h == CHOOSE x \in c.selected : TRUE
         IN  [chat_verdict EXCEPT ![h.homework_name] = h.status]
    ELSE chat_verdict

PollHomework ==
    /\ program = "homework"
    /\ pc = "loop"
    /\ now + RETRY_PERIOD <= Horizon
    /\ \E net \in NetOutcomes :
        \E tg \in OutcomesOf(main_iteration(timestamp, last_error,
                       last_message_id, now, net, "ok", 1).cycle.calls) :
        \E mid \in IdsOf(main_iteration(timestamp, last_error,
                       last_message_id, now, net, tg, 1).cycle) :
          LET it == main_iteration(timestamp, last_error, last_message_id,
                                   now, net, tg, mid)
          IN  /\ timestamp' = it.timestamp
              /\ last_error' = it.last_error
              /\ last_message_id' = it.last_message_id
              /\ pc' = it.pc
              /\ cycle' = it.cycle
              /\ now' = now + it.cycle.slept
              /\ chat_status' = ChatStatusAfter(it.cycle)
              /\ chat_verdict' = ChatVerdictAfter(it.cycle)
    /\ UNCHANGED <<program, env, last_status, reply, arg, ret>>

(* ----------------- src/backend/homework.py: the loop -------------------- *)
\* A send_message that reports success whatever bot.send_message did.
backend_send_message_always_true(tg) == TRUE

\* send_message(message) of src/backend/homework.py: True when
\* bot.send_message returned, False when it raised ApiException or
\* RequestException.
backend_send_message(tg) == tg = "ok"

\* line 219: if current_status != last_status
status_changed(current_status, ls) == current_status # ls

\* One iteration of `while True` of main, lines 204-235, from the cursor ts
\* and last_status ls, at wall-clock time t, on the fetch outcome net and the
\* Telegram outcome tg.  Every exception is caught by `except Exception`,
\* which sleeps RETRY_PERIOD before the finally clause sleeps it again.
backend_iteration(ts, ls, t, net, tg) ==
    LET api == backend_get_api_answer(ts, net)
        chk == backend_check_response(api.val)
        homeworks == chk.val
        current_timestamp == get_current_date(api.val, t)
        latest == latest_homework(homeworks)
        has_status == "status" \in DOMAIN latest
        changed == status_changed(latest.status, ls)
        message == backend_status_message(latest, latest.status)
        raised == IF ~api.ok THEN api
                  ELSE IF ~chk.ok THEN chk
                  ELSE IF homeworks = <<>> THEN Ok(None)
                  ELSE IF ~has_status THEN Raise("KeyError", "status")
                  ELSE IF changed /\ ~message.ok THEN message
                  ELSE Ok(None)
        sends == raised.ok /\ homeworks # <<>> /\ changed
        delivered == sends /\ backend_send_message(tg)
    IN  [timestamp |-> IF delivered THEN current_timestamp ELSE ts,
         last_status |-> IF delivered THEN latest.status ELSE ls,
         cycle |-> [result |-> IF raised.ok THEN "ok" ELSE "caught",
                    exc |-> IF raised.ok THEN None ELSE raised.exc,
                    error |-> IF raised.ok THEN None ELSE ExcStr(raised),
                    validated |-> api.ok /\ chk.ok,
                    server_date |-> ServerDate(api),
                    selected |-> IF api.ok /\ chk.ok /\ homeworks # <<>>
                                 THEN {latest} ELSE {},
                    calls |-> IF sends
                              THEN <<Call("send_message", message.val, tg)>>
                              ELSE <<>>,
                    slept |-> IF raised.ok THEN RETRY_PERIOD
                              ELSE RETRY_PERIOD + RETRY_PERIOD]]

(* ------------- src/backend/homework.py: the command thread -------------- *)
\* main starts bot.polling in a daemon thread before the loop.  A handler
\* reads and writes no variable of main; it reads the clock and talks to the
\* same API and the same chat.

\* Texts of the messages a user may send: the command, the text of the
\* keyboard button, the same text typed in lower case, anything else.
ButtonText == "Check homework status"
MessageTexts == {"/status", ButtonText, "check homework status", "hello"}

\* message.text.lower(), on MessageTexts
Lower(text) == IF text = ButtonText THEN "check homework status" ELSE text

\* telebot runs the first registered handler whose filter accepts the message.
Handler(text) ==
    IF text = "/status" THEN "handle_status"
    ELSE IF Lower(text) = "check homework status" THEN "handle_button_status"
    ELSE "send_status_keyboard"

\* time.ctime(t), kept symbolic
Ctime(t) == "ctime(" \o ToString(t) \o ")"

\* A fetch window that starts at the cursor of the polling loop.
status_from_loop_cursor(t) == timestamp
\* timestamp = int(time.time()) - 3600, line 152
status_from_date(t) == t - STATUS_WINDOW

\* A text that substitutes the status code for an unknown verdict.
status_text_with_default(latest, t) ==
    IF "status" \notin DOMAIN latest
    THEN Raise("KeyError", "status")
    ELSE IF "homework_name" \notin DOMAIN latest
    THEN Raise("KeyError", "homework_name")
    ELSE Ok("Work: " \o latest.homework_name \o "\nStatus: " \o latest.status)

\* The message of send_homework_status for the entry `latest`, lines 166-172:
\* latest['status'], latest['homework_name'] and HOMEWORK_VERDICTS[status]
\* are read in this order.
status_text(latest, t) ==
    IF "status" \notin DOMAIN latest
    THEN Raise("KeyError", "status")
    ELSE IF "homework_name" \notin DOMAIN latest
    THEN Raise("KeyError", "homework_name")
    ELSE IF latest.status \notin DOMAIN HOMEWORK_VERDICTS
    THEN Raise("KeyError", latest.status)
    ELSE Ok("Work: " \o latest.homework_name
            \o "\nStatus: " \o HOMEWORK_VERDICTS[latest.status]
            \o "\nLast update: "
            \o Ctime(IF "date_updated" \in DOMAIN latest
                     THEN latest.date_updated ELSE t))

\* Lines 153-181 of send_homework_status, once requests.get has answered
\* with `net`: the message is built at time t2 (time.time() of line 171, read
\* after the fetch) and handed to send_message, whose transport does tg.
\* send_message(message) catches what the transport raises; its result is
\* not used.
status_reply(t2, net, tg) ==
    LET api == backend_get_api_answer(0, net)
        chk == backend_check_response(api.val)
        homeworks == chk.val
        latest == latest_homework(homeworks)
        text == status_text(latest, t2)
        raised == IF ~api.ok THEN api
                  ELSE IF ~chk.ok THEN chk
                  ELSE IF homeworks # <<>> /\ ~text.ok THEN text
                  ELSE Ok(None)
        message == IF ~raised.ok
                   THEN IF IsHomeworkBotError(raised.exc)
                        THEN "Error getting status: " \o ExcStr(raised)
                        ELSE "Unexpected error: " \o ExcStr(raised)
                   ELSE IF homeworks = <<>>
                   THEN "No homework data received yet. Try later."
                   ELSE text.val
    IN  [handler |-> None,
         from_date |-> {},
         kind |-> IF ~raised.ok THEN "error"
                  ELSE IF homeworks = <<>> THEN "empty" ELSE "status",
         selected |-> IF api.ok /\ chk.ok /\ homeworks # <<>>
                      THEN {latest} ELSE {},
         calls |-> <<Call("send_message", message, tg)>>]

\* send_homework_status() entered at time t (line 152 reads the clock), its
\* requests.get answering `net`, its message built at time t2 >= t.
send_homework_status(t, t2, net, tg) ==
    [status_reply(t2, net, tg) EXCEPT !.from_date = {status_from_date(t)}]

\* send_status_keyboard(message): bot.send_message called bare; what it raises
\* is caught by start_polling, which restarts bot.polling.
send_status_keyboard(tg) ==
    [handler |-> None, from_date |-> {}, kind |-> "keyboard", selected |-> {},
     calls |-> <<Call("send_message",
                      "Press the button to check the homework status.", tg)>>]

\* With messages arriving, the loop starts no iteration from BotHorizon on.
BotHorizon == MaxBotClock * RETRY_PERIOD

\* The values of time.time() at which a handler may build its message: a
\* time of the loop's clock plus the seconds its requests.get took.
ClockValues ==
    {k * RETRY_PERIOD + d : k \in 1..(MaxBotClock + 2), d \in 0..MaxFetchSeconds}

\* Lists the API may return to the status check: none, one entry (dated,
\* undated, of unknown status, without homework_name), an undated entry
\* before a dated one.
StatusLists ==
    {<<>>,
     <<[homework_name |-> "hw1", status |-> "approved", date_updated |-> 1]>>,
     <<[homework_name |-> "hw1", status |-> "approved"]>>,
     <<[homework_name |-> "hw1", status |-> "archived"]>>,
     <<[status |-> "reviewing"]>>,
     <<[homework_name |-> "hw1", status |-> "approved"],
       [homework_name |-> "hw2", status |-> "reviewing", date_updated |-> 1]>>}

\* What requests.get may answer to the status check: it raises, or returns a
\* response whose body is not a dict or carries one of StatusLists.
StatusNetOutcomes ==
    {[kind |-> "RequestException", error |-> "timeout"]}
    \cup {[kind |-> "response", status_code |-> HTTP_OK, json |-> PyList(<<>>)]}
    \cup {[kind |-> "response", status_code |-> HTTP_OK,
           json |-> PyDict([homeworks |-> PyList(l)])] : l \in StatusLists}

\* What lines 153-180 may build at each time, over every answer of
\* requests.get, bot.send_message not yet returned.
StatusReplies ==
    [t2 \in ClockValues |->
        {status_reply(t2, net, "pending") : net \in StatusNetOutcomes}]

\* The thread is inside send_homework_status: in requests.get or in
\* bot.send_message.
InFlight(r) ==
    \/ r.kind = "fetching"
    \/ r.calls # <<>> /\ r.calls[1].outcome = "pending"

(* ------ src/backend/homework.py: the loop and the thread, interleaved ---- *)
\* While a message is handled main may be anywhere in its iteration, and
\* while main is in requests.get, bot.send_message or time.sleep the thread
\* may handle messages.  The iteration is therefore taken statement by
\* statement: pc is "loop" before get_api_answer, "send" before
\* send_message(message), "assign" before lines 226-227, "except_sleep" and
\* "finally_sleep" before the sleeps.  `cycle` is filled in as the iteration
\* goes.  A status check is taken in three steps: up to its requests.get,
\* from the answer of requests.get to its bot.send_message, and the return
\* of bot.send_message.  One handler is followed at a time.  `reply` is the
\* message being handled or the last one handled since the loop's latest
\* fetch.

\* Lines 206-224: fetch, validation, selection, comparison with last_status
\* and the text of the message.
LoopFetch ==
    /\ program = "backend"
    /\ pc = "loop"
    /\ now + RETRY_PERIOD <= Horizon
    /\ \E net \in NetOutcomes :
          LET it == backend_iteration(timestamp, last_status, now, net, "ok")
          IN  /\ cycle' = [it.cycle EXCEPT !.calls = <<>>, !.slept = 0]
              /\ pc' = IF it.cycle.calls # <<>> THEN "send"
                       ELSE IF it.cycle.result = "ok" THEN "finally_sleep"
                       ELSE "except_sleep"
    /\ reply' = IF InFlight(reply) THEN reply ELSE NoReply
    /\ UNCHANGED <<program, env, now, timestamp, last_status, last_error,
                   last_message_id, chat_status, chat_verdict, arg, ret>>

\* Line 225, send_message(message): bot.send_message delivers the message to
\* the chat or raises; main has not yet assigned anything.
LoopSend ==
    /\ program = "backend"
    /\ pc = "send"
    /\ \E tg \in TransportOutcomes :
          LET h == CHOOSE x \in cycle.selected : TRUE
              sent == [cycle EXCEPT !.calls =
                          <<Call("send_message",
                                 backend_status_message(h, h.status).val, tg)>>]
          IN  /\ cycle' = sent
              /\ chat_status' = ChatStatusAfter(sent)
              /\ chat_verdict' = ChatVerdictAfter(sent)
              /\ pc' = IF backend_send_message(tg) THEN "assign"
                       ELSE "finally_sleep"
    /\ UNCHANGED <<program, env, now, timestamp, last_status, last_error,
                   last_message_id, reply, arg, ret>>

\* Lines 226-227: last_status = current_status; timestamp = current_timestamp,
\* which is the current_date of the response or the clock read at line 208.
LoopAssign ==
    /\ program = "backend"
    /\ pc = "assign"
    /\ last_status' = (CHOOSE x \in cycle.selected : TRUE).status
    /\ timestamp' = IF cycle.server_date # {}
                    THEN CHOOSE d \in cycle.server_date : TRUE
                    ELSE now
    /\ pc' = "finally_sleep"
    /\ UNCHANGED <<program, env, now, last_error, last_message_id, cycle,
                   chat_status, chat_verdict, reply, arg, ret>>

\* Line 233: time.sleep(RETRY_PERIOD) of the except clause.
LoopSleepExcept ==
    /\ program = "backend"
    /\ pc = "except_sleep"
    /\ now' = now + RETRY_PERIOD
    /\ cycle' = [cycle EXCEPT !.slept = @ + RETRY_PERIOD]
    /\ pc' = "finally_sleep"
    /\ UNCHANGED <<program, env, timestamp, last_status, last_error,
                   last_message_id, chat_status, chat_verdict, reply, arg, ret>>

\* Line 235: time.sleep(RETRY_PERIOD) of the finally clause.
LoopSleepFinally ==
    /\ program = "backend"
    /\ pc = "finally_sleep"
    /\ now' = now + RETRY_PERIOD
    /\ cycle' = [cycle EXCEPT !.slept = @ + RETRY_PERIOD]
    /\ pc' = "loop"
    /\ UNCHANGED <<program, env, timestamp, last_status, last_error,
                   last_message_id, chat_status, chat_verdict, reply, arg, ret>>

\* The thread runs from line 202 on, whatever main is doing.
ThreadRuns == program = "backend" /\ pc \notin {"start", "exited"}

\* handle_status / handle_button_status enter send_homework_status: line 152
\* reads the clock, line 153 calls requests.get.
StatusFetch ==
    /\ ThreadRuns
    /\ ~InFlight(reply)
    /\ \E text \in MessageTexts :
          /\ Handler(text) # "send_status_keyboard"
          /\ reply' = [NoReply EXCEPT !.handler = Handler(text),
                                      !.kind = "fetching",
                                      !.from_date = {status_from_date(now)}]
    /\ UNCHANGED <<program, env, pc, now, timestamp, last_status, last_error,
                   last_message_id, cycle, chat_status, chat_verdict, arg, ret>>

\* requests.get answers after d seconds; lines 154-179 build the message,
\* reading the clock at line 171, and line 181 calls bot.send_message.
StatusAnswer ==
    /\ ThreadRuns
    /\ reply.kind = "fetching"
    /\ \E d \in 0..MaxFetchSeconds :
          \E r \in StatusReplies[now + d] :
              reply' = [r EXCEPT !.handler = reply.handler,
                                 !.from_date = reply.from_date]
    /\ UNCHANGED <<program, env, pc, now, timestamp, last_status, last_error,
                   last_message_id, cycle, chat_status, chat_verdict, arg, ret>>

\* bot.send_message of line 67, called from line 181, returns or raises.
StatusDeliver ==
    /\ ThreadRuns
    /\ reply.kind # "fetching"
    /\ InFlight(reply)
    /\ \E tg \in TransportOutcomes :
          reply' = [reply EXCEPT !.calls[1].outcome = tg]
    /\ UNCHANGED <<program, env, pc, now, timestamp, last_status, last_error,
                   last_message_id, cycle, chat_status, chat_verdict, arg, ret>>

\* send_status_keyboard answers any other text.
KeyboardSend ==
    /\ ThreadRuns
    /\ ~InFlight(reply)
    /\ \E text \in MessageTexts, tg \in TransportOutcomes :
          /\ Handler(text) = "send_status_keyboard"
          /\ reply' = [send_status_keyboard(tg) EXCEPT !.handler = Handler(text)]
    /\ UNCHANGED <<program, env, pc, now, timestamp, last_status, last_error,
                   last_message_id, cycle, chat_status, chat_verdict, arg, ret>>

\* The command thread of src/backend/homework.py.
Thread == StatusFetch \/ StatusAnswer \/ StatusDeliver \/ KeyboardSend

\* The loop of src/backend/homework.py.
Loop ==
    LoopFetch \/ LoopSend \/ LoopAssign \/ LoopSleepExcept \/ LoopSleepFinally

(* --------------------------- specifications ---------------------------- *)
\* Both mains, no message arriving for the command thread.
Next == Start \/ PollHomework \/ Loop

Spec == Init /\ [][Next]_vars

\* src/homework.py alone.
InitHomework == Init /\ program = "homework"
NextHomework == Start \/ PollHomework
SpecHomework == InitHomework /\ [][NextHomework]_vars

\* src/backend/homework.py alone, no message arriving.
InitBackend == Init /\ program = "backend"
NextBackend == Start \/ Loop
SpecBackend == InitBackend /\ [][NextBackend]_vars

\* src/backend/homework.py with messages arriving at any moment.
NextBot ==
    \/ Start
    \/ (now < BotHorizon /\ LoopFetch)
    \/ LoopSend \/ LoopAssign \/ LoopSleepExcept \/ LoopSleepFinally
    \/ Thread
SpecBot == InitBackend /\ [][NextBot]_vars

\* Both mains, with messages arriving at any moment.
NextAll ==
    \/ Start
    \/ (now < BotHorizon /\ PollHomework)
    \/ (now < BotHorizon /\ LoopFetch)
    \/ LoopSend \/ LoopAssign \/ LoopSleepExcept \/ LoopSleepFinally
    \/ Thread
SpecAll == Init /\ [][NextAll]_vars

(* ---------------------- functions called on their own ------------------ *)
\* A function of the source applied to an argument, outside any main: the
\* variables of the mains keep their initial values.
MainIdle ==
    /\ program = "homework"
    /\ env = TokenNames
    /\ pc = "start"
    /\ now = RETRY_PERIOD
    /\ timestamp = 0
    /\ last_status = None
    /\ last_error = None
    /\ last_message_id = NoMessageId
    /\ cycle = NoCycle
    /\ chat_status = None
    /\ chat_verdict = [n \in Names |-> None]
    /\ reply = NoReply

\* check_response(arg), of either file, on each body response.json() may give
InitValidate == MainIdle /\ arg \in JsonBodies /\ ret = NoReturn

CallCheckResponse ==
    /\ ret.fn = None
    /\ ret' = Returned("check_response", check_response(arg))
    /\ UNCHANGED <<program, env, pc, now, timestamp, last_status, last_error,
                   last_message_id, cycle, chat_status, chat_verdict, reply, arg>>

CallBackendCheckResponse ==
    /\ ret.fn = None
    /\ ret' = Returned("backend_check_response", backend_check_response(arg))
    /\ UNCHANGED <<program, env, pc, now, timestamp, last_status, last_error,
                   last_message_id, cycle, chat_status, chat_verdict, reply, arg>>

NextValidate == CallCheckResponse \/ CallBackendCheckResponse
SpecValidate == InitValidate /\ [][NextValidate]_vars

\* The selection of the entry to act on, on lists of dated and undated
\* entries: sorted(...)[0] of src/backend/homework.py (main and
\* send_homework_status) and homeworks[0] of src/homework.py.
SelectNames == {"A", "B", "C"}
SelectDates == {100 * k : k \in 1..MaxSelectDate}
SelectEntries ==
    {[homework_name |-> n, status |-> "reviewing", date_updated |-> d] :
        n \in SelectNames, d \in SelectDates}
    \cup {[homework_name |-> n, status |-> "reviewing"] : n \in SelectNames}
SelectLists == SeqsUpTo(SelectEntries, MaxSelect) \ {<<>>}

InitSelect == MainIdle /\ arg \in SelectLists /\ ret = NoReturn

SelectLatest ==
    /\ ret.fn = None
    /\ ret' = Returned("backend", Ok(latest_homework(arg)))
    /\ UNCHANGED <<program, env, pc, now, timestamp, last_status, last_error,
                   last_message_id, cycle, chat_status, chat_verdict, reply, arg>>

SelectFirst ==
    /\ ret.fn = None
    /\ ret' = Returned("homework", Ok(arg[1]))
    /\ UNCHANGED <<program, env, pc, now, timestamp, last_status, last_error,
                   last_message_id, cycle, chat_status, chat_verdict, reply, arg>>

NextSelect == SelectLatest \/ SelectFirst
SpecSelect == InitSelect /\ [][NextSelect]_vars

(* ------------------------------ properties ----------------------------- *)
\* The iteration c made a Telegram call that raised.
FailedCall(c) == c.calls # <<>> /\ c.calls[1].outcome # "ok"

\* The exceptions a cycle raises on its own: fetch/API error, malformed
\* response, missing field, unknown status.
CycleErrors == {"APIResponseError", "TypeError", "KeyError", "ValueError"}

\* The iteration c went through the error-notification path of
\* src/homework.py (its except clause ran).
ErrorPath(c) ==
    c.error # None /\ c.exc \in {"APIResponseError", "ApiException", "RequestException"}

\* The step ends an iteration of a loop: the last sleep of the iteration is
\* over and main is back at `while True`, or an exception has left main.
IterationEnds ==
    /\ pc \notin {"start", "crashed", "exited"}
    /\ now' # now
    /\ pc' \in {"loop", "crashed"}

\* The step is a statement of a loop, not of the command thread.
LoopStep == pc # "start" /\ (pc' # pc \/ now' # now)

\* main is in its loop.
LoopPcs == {"loop", "send", "assign", "except_sleep", "finally_sleep"}

\* The entry h has a name and a status the bot knows.
WellFormed(h) ==
    /\ "homework_name" \in DOMAIN h
    /\ "status" \in DOMAIN h
    /\ h.status \in DOMAIN HOMEWORK_VERDICTS

\* C1: cursor monotonicity - no statement of a loop makes the cursor smaller,
\* so the cursor passed to the next fetch is not smaller than the cursor an
\* iteration used.
C1_CursorMonotone ==
    [][pc # "start" => timestamp' >= timestamp]_vars

\* C2: at the end of every iteration in which fetch and validation succeeded
\* the cursor equals the response's current_date when it has one; and the
\* cursor is never assigned anything but the current_date of the response of
\* the iteration (not the wall clock), so it is unchanged when the response
\* has none.
C2_CursorFollowsServer ==
    [][/\ (IterationEnds /\ cycle'.validated /\ cycle'.server_date # {}) =>
              timestamp' \in cycle'.server_date
       /\ (pc # "start" /\ timestamp' # timestamp) =>
              timestamp' \in cycle'.server_date]_vars

\* C3: the loop never delivers a status notification whose text is identical
\* to the status notification delivered just before it.
C3_NoRepeatedStatus ==
    [][(pc = "loop" /\ DeliveredStatus(cycle') # {}) =>
          cycle'.calls[1].text # chat_status]_vars

\* C4: fault isolation - whatever error a cycle raises, main stays in its
\* loop.
C4_FaultIsolation ==
    cycle.exc \in CycleErrors => pc \in LoopPcs

\* C5: error-state reset - a successful cycle after a delivered error
\* notification clears last_error, and a failing cycle that follows a
\* successful one delivers an error notification when Telegram works.
C5_ErrorStateReset ==
    [][(pc = "loop" /\ program = "homework") =>
          /\ (cycle'.result = "ok" /\ last_message_id # NoMessageId)
                => last_error' = None
          /\ (cycle.result = "ok" /\ ErrorPath(cycle') /\ ~FailedCall(cycle'))
                => cycle'.calls # <<>>]_vars

\* C6: at-least-once delivery of a status change in the backend loop.
\* last_status and the cursor are assigned only after a notification that
\* Telegram accepted, so a failed delivery leaves them as they were: main
\* goes from the failed send to the sleep.  Whenever the server reports a
\* well-formed latest entry whose status differs from last_status the
\* notification is attempted (so it is attempted again after a failure); its
\* text is determined by the entry alone (the same text for the same entry);
\* and when Telegram accepts it, it is in the chat and last_status becomes
\* that status.
C6_AtLeastOnce ==
    [][(program = "backend" /\ LoopStep) =>
          /\ (last_status' # last_status \/ timestamp' # timestamp) =>
                DeliveredStatus(cycle) # {}
          /\ pc = "loop" =>
                \A h \in cycle'.selected :
                    (cycle'.validated /\ WellFormed(h) /\ h.status # last_status)
                        => pc' = "send"
          /\ pc = "send" =>
                /\ cycle'.calls # <<>>
                /\ \A h \in cycle.selected :
                      cycle'.calls[1].text = backend_status_message(h, h.status).val
                /\ FailedCall(cycle') => pc' = "finally_sleep"
                /\ ~FailedCall(cycle') =>
                      (pc' = "assign" /\ chat_status' = cycle'.calls[1].text)
          /\ pc = "assign" =>
                \A h \in cycle.selected : last_status' = h.status]_vars

\* C6 witness: the backend loop tried to deliver a status change, Telegram
\* raised, and last_status is still not the reported status.
C6_Witness ==
    /\ program = "backend"
    /\ FailedCall(cycle)
    /\ \E h \in cycle.selected : WellFormed(h) /\ h.status # last_status

\* C7: a Telegram call that raises never leaves the notification step - the
\* cycle is not aborted by it and the loop goes on.
C7_TransportContained ==
    FailedCall(cycle) => (pc \in LoopPcs /\ cycle.result # "escaped")

\* C8: error-path dedup - an error notification is sent or edited only when
\* the error text differs from last_error, and in a run of consecutive failing
\* cycles with the same text exactly the first one delivers it (Telegram
\* working).
C8_ErrorDedup ==
    [][(pc = "loop" /\ ErrorPath(cycle')) =>
          /\ cycle'.calls # <<>> => cycle'.error # last_error
          /\ ~FailedCall(cycle') =>
                (cycle'.calls # <<>>
                    <=> ~(ErrorPath(cycle) /\ cycle.error = cycle'.error))]_vars

\* C9: every cycle-local error is caught at the cycle boundary and, when its
\* text is new, a notification of it has been attempted by the end of the
\* iteration.
C9_ErrorsNotified ==
    [][(IterationEnds /\ cycle'.exc \in CycleErrors
           /\ cycle'.error # last_error) =>
          (cycle'.result = "caught" /\ cycle'.calls # <<>>)]_vars

\* C10: change detection is per homework - with a well-formed entry selected,
\* the loop goes on to send a status notification iff the status of the
\* entry differs from the status last delivered for the same homework_name.
C10_PerHomeworkChange ==
    [][(program = "backend" /\ pc = "loop" /\ LoopStep) =>
          \A h \in cycle'.selected :
              (cycle'.validated /\ WellFormed(h)) =>
                  (pc' = "send"
                      <=> h.status # chat_verdict[h.homework_name])]_vars

\* The entry h carries a status that is not a key of HOMEWORK_VERDICTS.
UnknownVerdict(h) ==
    "status" \in DOMAIN h /\ h.status \notin DOMAIN HOMEWORK_VERDICTS

\* C11: startup precondition.  While a setting is missing or empty,
\* check_tokens is False, the settings it names are exactly the absent ones,
\* and main never enters the loop: no iteration runs, so nothing is fetched
\* and nothing is delivered.  With all three settings present main does not
\* exit at the check: once started it is in the loop (or past it).
C11_StartupPrecondition ==
    /\ missing_tokens(env) # {} =>
          /\ ~check_tokens(env)
          /\ missing_tokens(env) \cap env = {}
          /\ missing_tokens(env) \cup env = TokenNames
          /\ pc \in {"start", "exited"}
          /\ cycle = NoCycle
          /\ chat_status = None
          /\ reply = NoReply
    /\ missing_tokens(env) = {} =>
          /\ check_tokens(env)
          /\ pc # "exited"

C11_Witness ==
    /\ pc = "exited"
    /\ missing_tokens(env) # {}
    /\ env # {}

\* C12: an unknown verdict fails hard.  For an entry whose status is not
\* approved / reviewing / rejected every interpreter raises (parse_status of
\* both files, the message of the backend loop, the message of the status
\* command), none returns a text.  The iteration of a loop that selected such
\* an entry ends in ValueError or KeyError and makes no Telegram call, and
\* the status command that selected one replies with an error text, not with
\* a status.
C12_UnknownVerdictFailsHard ==
    /\ \A h \in cycle.selected \cup reply.selected :
          UnknownVerdict(h) =>
              /\ ~parse_status(h).ok
              /\ ~backend_parse_status(h).ok
              /\ ~backend_status_message(h, h.status).ok
              /\ ~status_text(h, now).ok
    /\ \A h \in cycle.selected :
          UnknownVerdict(h) =>
              /\ cycle.result \in {"caught", "escaped"}
              /\ cycle.exc \in {"ValueError", "KeyError"}
              /\ cycle.calls = <<>>
              /\ DeliveredStatus(cycle) = {}
    /\ \A h \in reply.selected :
          UnknownVerdict(h) =>
              /\ reply.kind = "error"
              /\ reply.calls[1].text = "Unexpected error: '" \o h.status \o "'"

C12_Witness ==
    /\ \E h \in cycle.selected : UnknownVerdict(h)
    /\ \E h \in reply.selected : UnknownVerdict(h)
    /\ reply.calls[1].outcome = "ok"

\* C13: the kinds of check_response.  Called on a body that is not a dict it
\* raises TypeError (malformed response); on a dict without 'homeworks',
\* KeyError (missing field); on a dict whose 'homeworks' is not a list,
\* TypeError; otherwise it returns the list of 'homeworks' itself, the same
\* entries in the same order.  The argument is what it was before the call.
C13_EnvelopeKinds ==
    ret.fn # None =>
        LET r == ret.result
        IN  IF arg.type # "dict"
            THEN ~r.ok /\ r.exc = "TypeError"
            ELSE IF "homeworks" \notin DOMAIN arg.d
            THEN ~r.ok /\ r.exc = "KeyError"
            ELSE IF arg.d.homeworks.type # "list"
            THEN ~r.ok /\ r.exc = "TypeError"
            ELSE r.ok /\ r.val = arg.d.homeworks.items /\ arg \in JsonBodies

C13_Witness ==
    /\ ret.fn = "backend_check_response"
    /\ ret.result.ok
    /\ Len(ret.result.val) = MaxHomeworks

\* The entry at position i of the list has the greatest date_updated (absent
\* counting as 0) and is the first of the list to have it.
GreatestFirst(homeworks, i) ==
    /\ \A j \in 1..Len(homeworks) :
          sort_key(homeworks[j]) <= sort_key(homeworks[i])
    /\ \A j \in 1..(i - 1) :
          sort_key(homeworks[j]) < sort_key(homeworks[i])

\* sorted(...)[0] of src/backend/homework.py selects that entry.
BackendSelectsGreatestFirst ==
    ret.fn = "backend" =>
        \E i \in 1..Len(arg) :
            GreatestFirst(arg, i) /\ ret.result.val = arg[i]

\* C14: record selection.  The entry a main acts on is the entry of the
\* response with the greatest date_updated, an absent date_updated counting
\* as 0, and the first such entry when several share it.
C14_RecordSelection ==
    ret.fn # None =>
        \E i \in 1..Len(arg) :
            GreatestFirst(arg, i) /\ ret.result.val = arg[i]

\* C15: no progress on failure.  When an iteration fails (get_api_answer,
\* check_response or the interpretation of the entry raises) and the loop
\* goes on, no statement from the failure to the next fetch assigns
\* timestamp: the next iteration fetches from the timestamp the failed one
\* started with.
C15_NoProgressOnFailure ==
    [][(pc # "start" /\ cycle'.exc \in CycleErrors /\ pc' \in LoopPcs) =>
          timestamp' = timestamp]_vars

\* An iteration of the backend loop that failed in the interpretation of the
\* entry, after a notification had moved the cursor; the loop goes on.
C15_Witness ==
    /\ pc = "loop"
    /\ cycle.result = "caught"
    /\ cycle.validated
    /\ cycle.selected # {}
    /\ last_status # None

\* C16: fixed delay between iterations.  Every iteration, whether it
\* succeeded or failed, has slept exactly RETRY_PERIOD when the next one
\* starts.
C16_FixedDelay ==
    [][IterationEnds => cycle'.slept = RETRY_PERIOD]_vars

\* C17: edit-in-place error policy.  An iteration that reports an error does
\* it by a fresh send when no error-message handle is stored and by editing
\* the stored message when one is; when that edit fails the error is sent
\* afresh in the same iteration, and the loop goes on.
C17_EditInPlace ==
    [][(pc = "loop" /\ program = "homework" /\ cycle'.error # None
           /\ cycle'.calls # <<>>) =>
          /\ cycle'.calls[1].op = IF last_message_id = NoMessageId
                                  THEN "send_message" ELSE "edit_message_text"
          /\ (cycle'.calls[1].op = "edit_message_text"
                  /\ cycle'.calls[1].outcome # "ok") =>
                /\ Len(cycle'.calls) > 1
                /\ cycle'.calls[Len(cycle'.calls)].op = "send_message"
                /\ cycle'.calls[Len(cycle'.calls)].text = cycle'.calls[1].text
                /\ pc' = "loop"]_vars

\* The handled message was answered with a status text that reached the chat.
DeliveredReply(r) == r.kind = "status" /\ r.calls[1].outcome = "ok"

\* C18: the loop and the command thread do not both deliver the same
\* verdict.  When the status command delivers the status of a homework, that
\* status is not the one the loop has already delivered for it.
C18_NoDoubleDelivery ==
    [][(~DeliveredReply(reply) /\ DeliveredReply(reply')) =>
          \A h \in reply'.selected :
              chat_verdict[h.homework_name] # h.status]_vars

\* C19: a handled message leaves the loop's state alone.  Whatever the
\* handler (the /status command, the button, the keyboard reply to any other
\* text), wherever main is in its iteration, and whatever the handler
\* fetched and sent, every step of the handler leaves timestamp and
\* last_status as they were; the fetch of the status check starts at
\* int(time.time()) - 3600 of the moment the handler was entered, whatever
\* the loop's timestamp is, and the keyboard reply fetches nothing.
C19_CommandLeavesLoopState ==
    [][(reply' # reply /\ reply'.kind # "none") =>
          /\ timestamp' = timestamp
          /\ last_status' = last_status
          /\ reply'.handler \in {"handle_status", "handle_button_status"} =>
                reply'.from_date = IF InFlight(reply)
                                   THEN reply.from_date
                                   ELSE {now - STATUS_WINDOW}
          /\ reply'.handler = "send_status_keyboard" =>
                reply'.from_date = {}]_vars

\* The status command was entered while main was between the delivery of
\* its notification and lines 226-227, and answered after main had moved
\* its cursor and slept.
C19_Witness ==
    /\ reply.handler = "handle_status"
    /\ DeliveredReply(reply)
    /\ last_status # None
    /\ cycle.server_date = {timestamp}
    /\ reply.from_date = {RETRY_PERIOD - STATUS_WINDOW}
    /\ now > RETRY_PERIOD
    /\ \E d \in 0..MaxFetchSeconds, net \in StatusNetOutcomes,
          tg \in TransportOutcomes :
          reply = [send_homework_status(RETRY_PERIOD, now + d, net, tg)
                      EXCEPT !.handler = "handle_status"]

\* C20: in the backend loop timestamp and last_status are assigned together,
\* and only after a notification of the iteration was delivered.  The
\* assignment sets last_status to the status notified, which is in the chat
\* and differs from the last_status before, and timestamp to the
\* current_date of the response (the time of the iteration when absent);
\* every other statement, in iterations with no homeworks, a status equal to
\* last_status, a failed send or an exception, leaves both as they were.
\* Hence between iterations last_status is None until the first delivery
\* and afterwards the status of the latest delivered notification.
C20_CursorAndStatusTogether ==
    [][(program = "backend" /\ LoopStep) =>
          /\ (timestamp' # timestamp \/ last_status' # last_status) =>
                (pc = "assign" /\ DeliveredStatus(cycle) # {})
          /\ pc = "assign" =>
                /\ \A h \in cycle.selected :
                      /\ h.status # last_status
                      /\ last_status' = h.status
                      /\ chat_verdict[h.homework_name] = last_status'
                /\ IF cycle.server_date # {}
                   THEN timestamp' \in cycle.server_date
                   ELSE timestamp' = now
          /\ pc' = "loop" =>
                ((last_status' = None) <=> (chat_status' = None))]_vars

\* A send that failed after an earlier notification had been delivered.
C20_Witness ==
    /\ program = "backend"
    /\ last_status # None
    /\ FailedCall(cycle)
    /\ \E h \in cycle.selected : WellFormed(h) /\ h.status # last_status
    /\ timestamp # now - cycle.slept
====
